---- MODULE Spec2Model ----
(***************************************************************************)
(* dup-fu (src/main.go): a walker goroutine sends one record per regular   *)
(* non-empty file on fileChannel, two checksum workers add the CRC32 of    *)
(* the content and forward the record on checksumChannel, and one          *)
(* aggregator goroutine (findDuplicates) groups the records by checksum    *)
(* in the map `duplicates` and keeps the counters of `stats`.  The main    *)
(* goroutine runs the terminal application; when it stops, the deferred    *)
(* close() calls of main run and the process exits.                        *)
(***************************************************************************)
EXTENDS Integers, Sequences, FiniteSets, TLC

(* ------------------------------- bounds -------------------------------- *)
\* Number of entries filepath.Walk visits (the size of the scanned tree).
NEntries == 3
\* Number of distinct file contents (CRC32 sums 0 .. NHash-1).
NHash == 2
\* File sizes are 0 .. MaxSize bytes.
MaxSize == 2
\* Modification times are 1 .. MaxTime.
MaxTime == 2
\* Capacity of fileChannel (make(chan tFileData, 200)), scaled down so that
\* a full channel and a blocked sender are reached with NEntries records.
FileChanCap == 2
\* Capacity of checksumChannel (make(chan tFileData, 100)), scaled down.
ChecksumChanCap == 1
\* Number of one-second ticks of updateStats that are followed.
MaxTicks == 1
\* Number of distinct base names a directory can hold.
NNames == 2
\* Number of files with the same content that are aggregated into one group
\* (sort.Slice treats a slice of 7 or more elements differently).
MaxGroup == 7
\* The byte counters shown by updateStats are 0 .. MaxBytes.
MaxBytes == 20

(* --------------------------- program constants ------------------------- *)
\* main starts calculateChecksum twice.
Workers == {1, 2}
\* The nil []byte of a record that has no checksum yet.
NilHash == << >>

VARIABLES
    walkIdx,          \* entries filepath.Walk has handed to walk() so far
    scanPc,           \* scan(): "walk", "done"
    fileChannel,      \* buffered records of fileChannel
    fileClosed,       \* close(fileChannel) has run
    checksumChannel,  \* buffered records of checksumChannel
    checksumClosed,   \* close(checksumChannel) has run
    wPc,              \* calculateChecksum(), per worker: "recv", "send", "exit"
    wData,            \* the loop variable `data` of each worker
    aggPc,            \* findDuplicates(): "recv", "incdup", "incsize", "gui", "store", "exit"
    aggD,             \* the loop variable `d`
    aggList,          \* the local variable `list`
    duplicates,       \* map[string][]tFileData
    stats,            \* tStats
    right,            \* items of the tview.List `right`
    repPc,            \* updateStats(): "tick", "check", "exit"
    shown,            \* the text last set on the stats view (its fields)
    mainPc,           \* main(): "running", "closed1", "closed2", "exited", "crashed"
    panicCause,       \* why the process crashed, or "none"
    emitted,          \* history: paths the walker has sent on fileChannel
    summed,           \* history: paths whose checksum a worker has computed
    readFailed,       \* history: paths whose open or read failed in a worker
    notFile,          \* history: visited paths that are no regular file of size > 0
    mismatched,       \* history: paths read with a byte count other than the recorded size
    fs,               \* the disk: the file each path holds (0: none)
    targetDir,        \* the package variable targetDir
    actKey,           \* the hotkey whose handler main runs: "none", "delete", "move",
                      \* "export"
    actPc,            \* where the handler is: "idle", "loop", "newline", "done"
    actList,          \* the part of `list` the handler's loop has not visited yet
    actCount,         \* the local variable `count` of the handler
    manifest,         \* what was written to duplicates.txt
    snapReg,          \* history: the map as it was when listDuplicates ran
    actFailed         \* history: paths whose os.Remove or os.Rename failed

vars == << walkIdx, scanPc, fileChannel, fileClosed, checksumChannel, checksumClosed,
           wPc, wData, aggPc, aggD, aggList, duplicates, stats, right, repPc, shown,
           mainPc, panicCause, emitted, summed, readFailed, notFile, mismatched,
           fs, targetDir, actKey, actPc, actList, actCount, manifest, snapReg, actFailed >>

(* ------------------------------ data types ------------------------------ *)
\* tFileData{path, size, hash, modified}
FileData(path, size, hash, modified) ==
    [path |-> path, size |-> size, hash |-> hash, modified |-> modified]

NoData == FileData(0, 0, NilHash, 0)

\* The os.FileInfo handed to walk(): NoInfo is the nil interface value.
NoInfo == [nil |-> TRUE, regular |-> FALSE, dir |-> FALSE, size |-> 0, mtime |-> 0]

FileInfos ==
    {NoInfo}
    \cup [nil : {FALSE}, regular : {FALSE}, dir : BOOLEAN, size : 0..MaxSize, mtime : {1}]
    \cup [nil : {FALSE}, regular : {TRUE}, dir : {FALSE}, size : 0..MaxSize, mtime : 1..MaxTime]

\* What filepath.Walk can pass to walk(): no error with a FileInfo, an error
\* with the FileInfo of a directory that could not be read, or an error with
\* a nil FileInfo (lstat of the entry failed).
WalkCalls ==
    { c \in [info : FileInfos, err : BOOLEAN] :
        /\ c.info.nil => c.err
        /\ (c.err /\ ~c.info.nil) => c.info.dir }

\* A path is the number of its directory and of its base name in it:
\* directory 0 is scanDir itself, directory 1 is scanDir/.dup-fu (the default
\* targetDir of line 293), directory 2 lies outside the scanned tree.  The
\* entries filepath.Walk visits are the paths 1, 2, ... in this order.
ScanTop == 0
DupFuDir == 1
OutsideDir == 2
DiskPaths == 1..((OutsideDir + 1) * NNames)

\* filepath.Base(path)
Base(path) == ((path - 1) % NNames) + 1

\* filepath.Dir(path)
Dir(path) == (path - 1) \div NNames

\* filepath.Join(dir, base)
Join(dir, base) == dir * NNames + base

\* h.Sum(nil) of crc32: the four bytes of the sum, big-endian.
SumBytes(crc) ==
    << (crc \div 16777216) % 256, (crc \div 65536) % 256, (crc \div 256) % 256, crc % 256 >>

RECURSIVE HexString(_)
\* fmt.Sprintf("%x", hash): two hex digits per byte.
HexString(bytes) ==
    IF bytes = << >> THEN << >>
    ELSE << Head(bytes) \div 16, Head(bytes) % 16 >> \o HexString(Tail(bytes))

(* --------------------------------- sort --------------------------------- *)
\* The less function of line 221-223.
Less(a, b) == a.modified < b.modified

Swap(list, i, j) ==
    [k \in 1..Len(list) |-> IF k = i THEN list[j] ELSE IF k = j THEN list[i] ELSE list[k]]

RECURSIVE InsertionInner(_, _)
\* for j := i; j > a && less(j, j-1); j-- { swap(j, j-1) }
InsertionInner(list, j) ==
    IF j > 1 /\ Less(list[j], list[j-1])
    THEN InsertionInner(Swap(list, j, j-1), j-1)
    ELSE list

RECURSIVE InsertionOuter(_, _)
\* for i := a + 1; i < b; i++ { ... }
InsertionOuter(list, i) ==
    IF i > Len(list) THEN list
    ELSE InsertionOuter(InsertionInner(list, i), i + 1)

InsertionSort(list) == InsertionOuter(list, 2)

RECURSIVE ShellPass(_, _)
\* The gap-6 pass older Go releases run before the insertion sort.
ShellPass(list, i) ==
    IF i > Len(list) THEN list
    ELSE ShellPass(IF Less(list[i], list[i-6]) THEN Swap(list, i, i-6) ELSE list, i + 1)

\* Variant: the appended slice is left as it is.
SortSliceNone(list) == { list }

\* sort.Slice(list, less) on a slice of at most 12 elements: an insertion
\* sort, preceded by a gap-6 pass in the Go releases before pdqsort.  The
\* sort is not documented to be stable, so both outcomes are possible.
SortSlice(list) == { InsertionSort(list), InsertionSort(ShellPass(list, 7)) }

\* Capacity of a slice grown from make([]tFileData, 0) by single appends.
RECURSIVE CapFor(_, _)
CapFor(n, c) == IF c >= n THEN c ELSE CapFor(n, 2 * c)
SliceCap(n) == IF n = 0 THEN 0 ELSE CapFor(n, 1)

(* ------------------------------- channels ------------------------------- *)
\* Variant: the record is lost.
ChanSendDrop(ch, d) == ch

\* ch <- d on a buffered channel with room.
ChanSend(ch, d) == Append(ch, d)

\* Variant: the received record stays in the buffer.
ChanRestKeep(ch) == ch

\* What a receive leaves in the buffer: the received record is removed.
ChanRest(ch) == Tail(ch)

(* -------------------------------- Init ---------------------------------- *)
GoroutinesInit ==
    /\ walkIdx = 0
    /\ scanPc = "walk"
    /\ fileChannel = << >>
    /\ fileClosed = FALSE
    /\ checksumChannel = << >>
    /\ checksumClosed = FALSE
    /\ wPc = [w \in Workers |-> "recv"]
    /\ wData = [w \in Workers |-> NoData]
    /\ aggPc = "recv"
    /\ aggD = NoData
    /\ aggList = << >>
    /\ duplicates = [k \in {} |-> << >>]
    /\ right = << >>
    /\ repPc = "tick"
    /\ shown = [set |-> FALSE, count |-> 0, size |-> 0, duplicates |-> 0,
                duplicateSize |-> 0, percent |-> "-", done |-> FALSE]
    /\ mainPc = "running"
    /\ panicCause = "none"
    /\ emitted = {}
    /\ summed = {}
    /\ readFailed = {}
    /\ notFile = {}
    /\ mismatched = {}

\* The goroutines at their start and the zero value of `stats`.
PipelineInit ==
    /\ GoroutinesInit
    /\ stats = [seconds |-> 0, count |-> 0, size |-> 0, duplicates |-> 0,
                duplicateSize |-> 0, complted |-> FALSE]

\* No hotkey has been pressed.
HandlerInit ==
    /\ actKey = "none"
    /\ actPc = "idle"
    /\ actList = << >>
    /\ actCount = 0
    /\ manifest = << >>
    /\ snapReg = [k \in {} |-> << >>]
    /\ actFailed = {}

\* main() up to line 306 with the default targetDir; every path of the
\* scanned tree holds its own file and nothing lies outside the tree.
Init ==
    /\ PipelineInit
    /\ HandlerInit
    /\ targetDir = DupFuDir
    /\ fs = [p \in DiskPaths |-> IF Dir(p) = OutsideDir THEN 0 ELSE p]

\* The process is alive: main has not returned and no goroutine has panicked.
Alive == mainPc \notin {"exited", "crashed"}

\* log.Panicln / a runtime panic in any goroutine ends the process.
Panic(cause) ==
    /\ mainPc' = "crashed"
    /\ panicCause' = cause


gWalker == << walkIdx, scanPc >>
gWorkers == << wPc, wData >>
gAgg == << aggPc, aggD, aggList, duplicates, right >>
gRep == << repPc, shown >>
gMain == << mainPc, panicCause >>
gClosed == << fileClosed, checksumClosed >>
gHist == << emitted, summed, readFailed >>
gAct == << fs, targetDir, actKey, actPc, actList, actCount, manifest, snapReg, actFailed >>

(* ------------------------------- walker --------------------------------- *)
\* Variant: the size is not tested.
QualifiesAnySize(info) == info.regular /\ ~info.dir

\* The tests of walk() that decide whether a record is sent (lines 56-63).
Qualifies(info) == info.regular /\ ~info.dir /\ info.size > 0

\* Lines 56-66 of walk(), info not being nil.
WalkInfo(path, info) ==
    IF ~Qualifies(info)
    THEN /\ walkIdx' = walkIdx + 1
         /\ UNCHANGED << fileChannel, emitted, gMain >>
    ELSE IF fileClosed
    THEN /\ Panic("send on closed channel")
         /\ UNCHANGED << walkIdx, fileChannel, emitted >>
    ELSE /\ Len(fileChannel) < FileChanCap
         /\ fileChannel' = ChanSend(fileChannel, FileData(path, info.size, NilHash, info.mtime))
         /\ emitted' = emitted \cup {path}
         /\ walkIdx' = walkIdx + 1
         /\ UNCHANGED gMain

\* walk(path, info, err): the error is ignored, info is used unconditionally.
Walk(path, info, err) ==
    IF info.nil
    THEN /\ Panic("nil FileInfo")
         /\ UNCHANGED << walkIdx, fileChannel, emitted, notFile >>
    ELSE /\ notFile' = IF info.regular /\ info.size > 0 THEN notFile
                                                        ELSE notFile \cup {path}
         /\ WalkInfo(path, info)

\* filepath.Walk calls walk() for the next entry of the tree.
WalkEntry ==
    /\ Alive
    /\ scanPc = "walk"
    /\ walkIdx < NEntries
    /\ \E c \in WalkCalls : Walk(walkIdx + 1, c.info, c.err)
    /\ UNCHANGED << scanPc, checksumChannel, gClosed, gWorkers, gAgg, stats, gRep,
                    summed, readFailed >>
    /\ UNCHANGED << mismatched, gAct >>

\* filepath.Walk has returned nil: scan() sets the flag.
ScanDone ==
    /\ Alive
    /\ scanPc = "walk"
    /\ walkIdx = NEntries
    /\ scanPc' = "done"
    /\ stats' = [stats EXCEPT !.complted = TRUE]
    /\ UNCHANGED << walkIdx, fileChannel, checksumChannel, gClosed, gWorkers, gAgg,
                    gRep, gMain, gHist >>
    /\ UNCHANGED << notFile, mismatched, gAct >>

(* --------------------------- checksum workers --------------------------- *)
\* for data := range fileChannel: the channel is closed and drained.
WorkerExit(w) ==
    /\ Alive
    /\ wPc[w] = "recv"
    /\ fileChannel = << >>
    /\ fileClosed
    /\ wPc' = [wPc EXCEPT ![w] = "exit"]
    /\ UNCHANGED << gWalker, fileChannel, checksumChannel, gClosed, wData, gAgg, stats,
                    gRep, gMain, gHist >>
    /\ UNCHANGED << notFile, mismatched, gAct >>

\* What os.Open and io.CopyBuffer can do on one file: fail, or read n bytes
\* whose CRC32 is crc (the content is whatever the file holds when it is read).
ReadOutcomes ==
    [err : {"open", "read"}, crc : {0}, n : {0}]
    \cup [err : {"none"}, crc : 0..(NHash - 1), n : 0..MaxSize]

\* Lines 206-207: a record is received and data.hash, _ = checksum(data.path)
\* runs.  checksum() touches no state shared with the other goroutines, so
\* the receive and the read of the file are one step.  The byte count
\* checksum() returns is assigned to _; with `traced` the history notes the
\* paths for which it was not the recorded size.
WorkerRead(w, traced) ==
    /\ Alive
    /\ wPc[w] = "recv"
    /\ fileChannel # << >>
    /\ fileChannel' = ChanRest(fileChannel)
    /\ LET data == Head(fileChannel)
       IN  \E o \in ReadOutcomes :
             /\ IF o.err # "none"
                THEN /\ Panic("read error")
                     /\ readFailed' = readFailed \cup {data.path}
                     /\ wData' = [wData EXCEPT ![w] = data]
                     /\ UNCHANGED << wPc, summed >>
                ELSE /\ wData' = [wData EXCEPT ![w] = [data EXCEPT !.hash = SumBytes(o.crc)]]
                     /\ wPc' = [wPc EXCEPT ![w] = "send"]
                     /\ summed' = summed \cup {data.path}
                     /\ UNCHANGED << gMain, readFailed >>
             /\ mismatched' = IF traced /\ o.err = "none" /\ o.n # data.size
                               THEN mismatched \cup {data.path}
                               ELSE mismatched
    /\ UNCHANGED << gWalker, checksumChannel, gClosed, gAgg, stats, gRep, emitted >>
    /\ UNCHANGED << notFile, gAct >>

WorkerSum(w) == WorkerRead(w, FALSE)

\* The same step with the history of the byte counts.
WorkerSumTraced(w) == WorkerRead(w, TRUE)

\* checksumChannel <- data
WorkerSend(w) ==
    /\ Alive
    /\ wPc[w] = "send"
    /\ IF checksumClosed
       THEN /\ Panic("send on closed channel")
            /\ UNCHANGED << checksumChannel, wPc >>
       ELSE /\ Len(checksumChannel) < ChecksumChanCap
            /\ checksumChannel' = ChanSend(checksumChannel, wData[w])
            /\ wPc' = [wPc EXCEPT ![w] = "recv"]
            /\ UNCHANGED gMain
    /\ UNCHANGED << gWalker, fileChannel, gClosed, wData, gAgg, stats, gRep, gHist >>
    /\ UNCHANGED << notFile, mismatched, gAct >>


(* ------------------------------ aggregator ------------------------------ *)
\* duplicates[hash] = list
MapStore(m, key, list) ==
    [k \in (DOMAIN m) \cup {key} |-> IF k = key THEN list ELSE m[k]]

\* append(list, d) followed by sort.Slice works in place when the slice has
\* spare capacity: the slice still stored in the map then sees the first
\* len(old) elements of the sorted array until line 247 stores the new one.
SortInPlace(m, key, sorted) ==
    IF Len(m[key]) < SliceCap(Len(m[key]))
    THEN [m EXCEPT ![key] = SubSeq(sorted, 1, Len(m[key]))]
    ELSE m

\* Lines 213-223: receive d, count it, look its group up, append and sort.
AggRecv ==
    /\ Alive
    /\ aggPc = "recv"
    /\ checksumChannel # << >>
    /\ LET d == Head(checksumChannel)
           hash == HexString(d.hash)
       IN  /\ aggD' = d
           /\ checksumChannel' = ChanRest(checksumChannel)
           /\ stats' = [stats EXCEPT !.count = @ + 1, !.size = @ + d.size]
           /\ IF hash \in DOMAIN duplicates
              THEN \E sorted \in SortSlice(Append(duplicates[hash], d)) :
                     /\ aggList' = sorted
                     /\ duplicates' = SortInPlace(duplicates, hash, sorted)
                     /\ aggPc' = "incdup"
              ELSE /\ aggList' = << d >>
                   /\ aggPc' = "store"
                   /\ UNCHANGED duplicates
    /\ UNCHANGED << gWalker, fileChannel, gClosed, gWorkers, right, gRep, gMain, gHist >>
    /\ UNCHANGED << notFile, mismatched, gAct >>

\* for d := range checksumChannel: the channel is closed and drained.
AggExit ==
    /\ Alive
    /\ aggPc = "recv"
    /\ checksumChannel = << >>
    /\ checksumClosed
    /\ aggPc' = "exit"
    /\ UNCHANGED << gWalker, fileChannel, checksumChannel, gClosed, gWorkers, aggD,
                    aggList, duplicates, right, stats, gRep, gMain, gHist >>
    /\ UNCHANGED << notFile, mismatched, gAct >>

\* Variant: the duplicate is counted only when the new record is not the head.
AggIncDupIfNewer ==
    /\ Alive
    /\ aggPc = "incdup"
    /\ stats' = [stats EXCEPT !.duplicates = IF aggList[1] = aggD THEN @ ELSE @ + 1]
    /\ aggPc' = "incsize"
    /\ UNCHANGED << gWalker, fileChannel, checksumChannel, gClosed, gWorkers, aggD,
                    aggList, duplicates, right, gRep, gMain, gHist >>
    /\ UNCHANGED << notFile, mismatched, gAct >>

\* Line 224: stats.duplicates++
AggIncDup ==
    /\ Alive
    /\ aggPc = "incdup"
    /\ stats' = [stats EXCEPT !.duplicates = @ + 1]
    /\ aggPc' = "incsize"
    /\ UNCHANGED << gWalker, fileChannel, checksumChannel, gClosed, gWorkers, aggD,
                    aggList, duplicates, right, gRep, gMain, gHist >>
    /\ UNCHANGED << notFile, mismatched, gAct >>

\* Line 225: stats.duplicateSize += uint64(d.size)
AggIncSize ==
    /\ Alive
    /\ aggPc = "incsize"
    /\ stats' = [stats EXCEPT !.duplicateSize = @ + aggD.size]
    /\ aggPc' = "gui"
    /\ UNCHANGED << gWalker, fileChannel, checksumChannel, gClosed, gWorkers, aggD,
                    aggList, duplicates, right, gRep, gMain, gHist >>
    /\ UNCHANGED << notFile, mismatched, gAct >>

\* Lines 226-229: list[1].path and, with more than one duplicate, " (+%d more)".
DupFiles(list) ==
    [path |-> list[2].path, more |-> IF Len(list) - 1 > 1 THEN Len(list) - 2 ELSE 0]

\* Lines 230-237: the index of the first item whose main text is path, or 0.
FindItem(items, path) ==
    IF \E i \in 1..Len(items) : items[i].main = path
    THEN CHOOSE i \in 1..Len(items) :
           /\ items[i].main = path
           /\ \A j \in 1..(i - 1) : items[j].main # path
    ELSE 0

\* Lines 238-242: AddItem when no item has the canonical path, else SetItemText.
UpdateItems(items, list, shortcut) ==
    LET currentIndex == FindItem(items, list[1].path)
    IN  IF currentIndex = 0
        THEN Append(items, [main |-> list[1].path, secondary |-> DupFiles(list),
                            shortcut |-> shortcut])
        ELSE [items EXCEPT ![currentIndex].main = list[1].path,
                           ![currentIndex].secondary = DupFiles(list)]

\* Lines 226-242: publish the group on the list view.
AggGui ==
    /\ Alive
    /\ aggPc = "gui"
    /\ right' = UpdateItems(right, aggList, stats.duplicates + 32)
    /\ aggPc' = "store"
    /\ UNCHANGED << gWalker, fileChannel, checksumChannel, gClosed, gWorkers, aggD,
                    aggList, duplicates, stats, gRep, gMain, gHist >>
    /\ UNCHANGED << notFile, mismatched, gAct >>

\* Line 247: duplicates[hash] = list
AggStore ==
    /\ Alive
    /\ aggPc = "store"
    /\ duplicates' = MapStore(duplicates, HexString(aggD.hash), aggList)
    /\ aggPc' = "recv"
    /\ UNCHANGED << gWalker, fileChannel, checksumChannel, gClosed, gWorkers, aggD,
                    aggList, right, stats, gRep, gMain, gHist >>
    /\ UNCHANGED << notFile, mismatched, gAct >>

(* ------------------------------- reporter ------------------------------- *)
\* Variant: five percent is yellow already.
FormatPercentFrom5(st) ==
    IF st.size < 1 THEN "-"
    ELSE IF 100 * st.duplicateSize > 15 * st.size THEN "red"
    ELSE IF 100 * st.duplicateSize >= 5 * st.size THEN "yellow"
    ELSE "green"

\* formatPercent(): "-" without bytes, else the colour tag put around the
\* number (the digits are not followed).  percent is duplicateSize / size *
\* 100 in float64; for the counters up to MaxBytes, and far beyond, its
\* comparisons with 15 and 5 give what the integers give here.
FormatPercent(st) ==
    IF st.size < 1 THEN "-"
    ELSE IF 100 * st.duplicateSize > 15 * st.size THEN "red"
    ELSE IF 100 * st.duplicateSize > 5 * st.size THEN "yellow"
    ELSE "green"

\* Lines 252-267: one tick of updateStats sets the text of the stats view.
RepTick ==
    /\ Alive
    /\ repPc = "tick"
    /\ stats.seconds < MaxTicks
    /\ stats' = [stats EXCEPT !.seconds = @ + 1]
    /\ shown' = [set |-> TRUE, count |-> stats.count, size |-> stats.size,
                 duplicates |-> stats.duplicates,
                 duplicateSize |-> stats.duplicateSize,
                 percent |-> FormatPercent(stats), done |-> stats.complted]
    /\ repPc' = "check"
    /\ UNCHANGED << gWalker, fileChannel, checksumChannel, gClosed, gWorkers, gAgg,
                    gMain, gHist >>
    /\ UNCHANGED << notFile, mismatched, gAct >>

\* Lines 269-271: leave the loop when the flag is set.
RepCheck ==
    /\ Alive
    /\ repPc = "check"
    /\ repPc' = IF stats.complted THEN "exit" ELSE "tick"
    /\ UNCHANGED << gWalker, fileChannel, checksumChannel, gClosed, gWorkers, gAgg,
                    stats, shown, gMain, gHist >>
    /\ UNCHANGED << notFile, mismatched, gAct >>

(* --------------------------------- main --------------------------------- *)
\* ESC (line 163): app.Stop() makes app.Run() return nil in main, whose
\* deferred calls then run, close(checksumChannel) of line 279 first.
AppStop ==
    /\ mainPc = "running"
    /\ checksumClosed' = TRUE
    /\ mainPc' = "closed1"
    /\ UNCHANGED << gWalker, fileChannel, checksumChannel, fileClosed, gWorkers, gAgg,
                    stats, gRep, panicCause, gHist >>
    /\ UNCHANGED << notFile, mismatched, gAct >>

\* Then the deferred close(fileChannel) of line 277.
CloseFileChannel ==
    /\ mainPc = "closed1"
    /\ fileClosed' = TRUE
    /\ mainPc' = "closed2"
    /\ UNCHANGED << gWalker, fileChannel, checksumChannel, checksumClosed, gWorkers,
                    gAgg, stats, gRep, panicCause, gHist >>
    /\ UNCHANGED << notFile, mismatched, gAct >>

\* main returns: the process exits and every goroutine stops with it.
MainReturn ==
    /\ mainPc = "closed2"
    /\ mainPc' = "exited"
    /\ UNCHANGED << gWalker, fileChannel, checksumChannel, gClosed, gWorkers, gAgg,
                    stats, gRep, panicCause, gHist >>
    /\ UNCHANGED << notFile, mismatched, gAct >>

(* ------------------------------- hotkeys -------------------------------- *)
\* Everything the goroutines of the pipeline own.
gPipe == << gWalker, fileChannel, checksumChannel, gWorkers, gAgg, stats, gRep, gHist,
            notFile, mismatched >>

\* A worker sends on checksumChannel the record of a file of the scanned tree
\* that was not sent before: the walker's record of line 64 with the checksum
\* of line 207.  Workers overtake each other, so the paths arrive in any order.
Deliver(paths, sizes, sums) ==
    /\ Alive
    /\ \E path \in paths \ summed, size \in sizes, crc \in sums, mtime \in 1..MaxTime :
         IF checksumClosed
         THEN /\ Panic("send on closed channel")
              /\ UNCHANGED << checksumChannel, emitted, summed >>
         ELSE /\ Len(checksumChannel) < ChecksumChanCap
              /\ checksumChannel' = ChanSend(checksumChannel,
                                             FileData(path, size, SumBytes(crc), mtime))
              /\ emitted' = emitted \cup {path}
              /\ summed' = summed \cup {path}
              /\ UNCHANGED gMain
    /\ UNCHANGED << gWalker, fileChannel, gClosed, gWorkers, gAgg, stats, gRep, readFailed,
                    notFile, mismatched, gAct >>

\* The records of the files walk() visits, with any content; the handlers
\* never look at the size, which is MaxSize for every file here.
DeliverFile == Deliver(1..NEntries, {MaxSize}, 0..(NHash - 1))

\* The records of up to MaxGroup files with the same content, the path of a
\* file being its place in the order of arrival.
DeliverTied == Deliver({Cardinality(summed) + 1} \cap 1..MaxGroup, {MaxSize}, {0})

\* The orders in which a range over a map with the keys K can visit them.
KeyOrders(K) ==
    { order \in [1..Cardinality(K) -> K] :
        \A i, j \in 1..Cardinality(K) : i # j => order[i] # order[j] }

\* Variant: the canonical member is listed too.
DupPathsAll(list) ==
    IF Len(list) < 2 THEN << >> ELSE [i \in 1..Len(list) |-> list[i].path]

\* Lines 100-105: nothing for a group of fewer than two members, else the
\* paths of list[1:].
DupPaths(list) ==
    IF Len(list) < 2 THEN << >> ELSE [i \in 1..(Len(list) - 1) |-> list[i + 1].path]

RECURSIVE ListInOrder(_, _)
\* The result of listDuplicates() when the range visits the keys in this order.
ListInOrder(m, order) ==
    IF order = << >> THEN << >>
    ELSE DupPaths(m[Head(order)]) \o ListInOrder(m, Tail(order))

\* listDuplicates(): the iteration order of a Go map is not specified.
ListDuplicates(m) == { ListInOrder(m, order) : order \in KeyOrders(DOMAIN m) }

\* The handler reads the map once: list := listDuplicates().
TakeList(key) ==
    /\ \E list \in ListDuplicates(duplicates) : actList' = list
    /\ snapReg' = duplicates
    /\ actKey' = key
    /\ actPc' = "loop"
    /\ actCount' = 0

\* Ctrl-_ (line 169): deleteDuplicates, lines 112-113.
DeleteStart ==
    /\ mainPc = "running"
    /\ actPc = "idle"
    /\ TakeList("delete")
    /\ UNCHANGED << gPipe, gClosed, gMain, fs, targetDir, manifest, actFailed >>

\* Lines 114-117: os.Remove(path); an error panics.
DeleteStep ==
    /\ Alive
    /\ actKey = "delete"
    /\ actPc = "loop"
    /\ actList # << >>
    /\ LET path == Head(actList)
       IN  \/ /\ fs[path] # 0
              /\ fs' = [fs EXCEPT ![path] = 0]
              /\ actCount' = actCount + 1
              /\ actList' = Tail(actList)
              /\ UNCHANGED << gMain, actFailed >>
           \/ /\ Panic("remove error")
              /\ actFailed' = actFailed \cup {path}
              /\ UNCHANGED << fs, actCount, actList >>
    /\ UNCHANGED << gPipe, gClosed, targetDir, actKey, actPc, manifest, snapReg >>

\* os.Rename(from, to): the file of `from` takes the place of whatever `to`
\* holds; renaming a path to itself changes nothing.
Rename(disk, from, to) ==
    IF from = to THEN disk
    ELSE [disk EXCEPT ![to] = disk[from], ![from] = 0]

\* Ctrl-M (line 167): moveDuplicates, lines 130-132.  os.MkdirAll can fail.
MoveStart ==
    /\ mainPc = "running"
    /\ actPc = "idle"
    /\ \/ /\ TakeList("move")
          /\ UNCHANGED gMain
       \/ /\ Panic("mkdir error")
          /\ actKey' = "move"
          /\ UNCHANGED << actPc, actList, actCount, snapReg >>
    /\ UNCHANGED << gPipe, gClosed, fs, targetDir, manifest, actFailed >>

\* Lines 133-136: os.Rename(path, filepath.Join(targetDir, filepath.Base(path))).
MoveStep ==
    /\ Alive
    /\ actKey = "move"
    /\ actPc = "loop"
    /\ actList # << >>
    /\ LET path == Head(actList)
       IN  \/ /\ fs[path] # 0
              /\ fs' = Rename(fs, path, Join(targetDir, Base(path)))
              /\ actCount' = actCount + 1
              /\ actList' = Tail(actList)
              /\ UNCHANGED << gMain, actFailed >>
           \/ /\ Panic("rename error")
              /\ actFailed' = actFailed \cup {path}
              /\ UNCHANGED << fs, actCount, actList >>
    /\ UNCHANGED << gPipe, gClosed, targetDir, actKey, actPc, manifest, snapReg >>

\* The "\n" of line 153 in the manifest; a path is written as itself.
NewLine == 0

\* Ctrl-E (line 165): exportDuplicates, lines 144-149.  os.MkdirAll and
\* os.Create can fail.
ExportStart ==
    /\ mainPc = "running"
    /\ actPc = "idle"
    /\ \/ /\ TakeList("export")
          /\ UNCHANGED gMain
       \/ /\ Panic("create error")
          /\ actKey' = "export"
          /\ UNCHANGED << actPc, actList, actCount, snapReg >>
    /\ UNCHANGED << gPipe, gClosed, fs, targetDir, manifest, actFailed >>

\* Lines 151-152: file.WriteString(path); an error panics.
ExportPath ==
    /\ Alive
    /\ actKey = "export"
    /\ actPc = "loop"
    /\ actList # << >>
    /\ \/ /\ manifest' = Append(manifest, Head(actList))
          /\ actPc' = "newline"
          /\ UNCHANGED << gMain, actFailed >>
       \/ /\ Panic("write error")
          /\ actFailed' = actFailed \cup {Head(actList)}
          /\ UNCHANGED << manifest, actPc >>
    /\ UNCHANGED << gPipe, gClosed, fs, targetDir, actKey, actList, actCount, snapReg >>

\* Lines 153-154: file.WriteString("\n"), whose error is dropped, and count++.
ExportNewline ==
    /\ Alive
    /\ actKey = "export"
    /\ actPc = "newline"
    /\ \/ manifest' = Append(manifest, NewLine)
       \/ UNCHANGED manifest
    /\ actCount' = actCount + 1
    /\ actList' = Tail(actList)
    /\ actPc' = "loop"
    /\ UNCHANGED << gPipe, gClosed, gMain, fs, targetDir, actKey, snapReg, actFailed >>

\* Lines 119, 138, 156: the loop is over, app.Stop() and the handler
\* returns; app.Run() returns in main and the deferred close(checksumChannel)
\* of line 279 runs.
HandlerStop ==
    /\ mainPc = "running"
    /\ actPc = "loop"
    /\ actList = << >>
    /\ actPc' = "done"
    /\ checksumClosed' = TRUE
    /\ mainPc' = "closed1"
    /\ UNCHANGED << gPipe, fileClosed, panicCause, fs, targetDir, actKey, actList,
                    actCount, manifest, snapReg, actFailed >>

(* ----------------------------- specification ---------------------------- *)
\* The steps of the goroutines of the pipeline (lines 303-306) while both
\* channels are open.
Pipeline ==
    \/ WalkEntry
    \/ ScanDone
    \/ \E w \in Workers : WorkerSum(w)
    \/ \E w \in Workers : WorkerSend(w)
    \/ AggRecv
    \/ AggIncDup
    \/ AggIncSize
    \/ AggGui
    \/ AggStore

\* The pipeline and the main goroutine, which may stop at any time and
\* closes the channels, ending the range loops.
Next ==
    \/ Pipeline
    \/ \E w \in Workers : WorkerExit(w)
    \/ AggExit
    \/ AppStop
    \/ CloseFileChannel
    \/ MainReturn

Spec == Init /\ [][Next]_vars

\* The pipeline while the application keeps running, with the reporter.
StatsNext ==
    \/ Pipeline
    \/ RepTick
    \/ RepCheck

SpecStats == Init /\ [][StatsNext]_vars

\* The pipeline while the application keeps running.  The Go scheduler runs
\* every goroutine that can take a step, so each step of the walker, of the
\* workers and of the aggregator is weakly fair.
LiveNext == Pipeline

LiveSpec ==
    /\ Init
    /\ [][LiveNext]_vars
    /\ WF_vars(WalkEntry)
    /\ WF_vars(ScanDone)
    /\ \A w \in Workers : WF_vars(WorkerSum(w)) /\ WF_vars(WorkerSend(w))
    /\ WF_vars(AggRecv)
    /\ WF_vars(AggIncDup)
    /\ WF_vars(AggIncSize)
    /\ WF_vars(AggGui)
    /\ WF_vars(AggStore)

\* The disk when a hotkey can first be pressed: every path of the scanned
\* tree holds its own file, and so does the first base name of OutsideDir.
DiskAtStart == [p \in DiskPaths |-> IF Dir(p) = OutsideDir /\ Base(p) # 1 THEN 0 ELSE p]

\* main() with either targetDir: the default of line 293 or os.Args[2],
\* here a directory outside the scanned tree in which the first base name is
\* taken by a file already and the other ones are free.
ActInit ==
    /\ PipelineInit
    /\ HandlerInit
    /\ targetDir \in {DupFuDir, OutsideDir}
    /\ fs = DiskAtStart

\* The aggregator fed by the workers, and the main goroutine handling one of
\* the hotkeys of lines 164-169.
ActNext ==
    \/ DeliverFile
    \/ AggRecv
    \/ AggIncDup
    \/ AggIncSize
    \/ AggGui
    \/ AggStore
    \/ AggExit
    \/ DeleteStart
    \/ DeleteStep
    \/ MoveStart
    \/ MoveStep
    \/ ExportStart
    \/ ExportPath
    \/ ExportNewline
    \/ HandlerStop
    \/ CloseFileChannel
    \/ MainReturn

ActSpec == ActInit /\ [][ActNext]_vars

\* The aggregator receiving the records of one group of files.
GroupNext ==
    \/ DeliverTied
    \/ AggRecv
    \/ AggIncDup
    \/ AggIncSize
    \/ AggGui
    \/ AggStore

GroupSpec == Init /\ [][GroupNext]_vars

\* The pipeline while the application keeps running, with the history of
\* the byte counts the workers read.
ReadNext ==
    \/ WalkEntry
    \/ ScanDone
    \/ \E w \in Workers : WorkerSumTraced(w)
    \/ \E w \in Workers : WorkerSend(w)
    \/ AggRecv
    \/ AggIncDup
    \/ AggIncSize
    \/ AggGui
    \/ AggStore

ReadSpec == Init /\ [][ReadNext]_vars

\* updateStats about to tick at some moment of a scan: the counters have any
\* values they can have then (the first file of a group is never counted in
\* duplicateSize, so duplicateSize < size once a file is counted).
PercentInit ==
    /\ GoroutinesInit
    /\ HandlerInit
    /\ targetDir = DupFuDir
    /\ fs = DiskAtStart
    /\ \E size \in 0..MaxBytes, duplicateSize \in 0..MaxBytes :
         /\ duplicateSize < size \/ (size = 0 /\ duplicateSize = 0)
         /\ stats = [seconds |-> 0,
                     count |-> (IF size > 0 THEN 1 ELSE 0)
                               + (IF duplicateSize > 0 THEN 1 ELSE 0),
                     size |-> size,
                     duplicates |-> IF duplicateSize > 0 THEN 1 ELSE 0,
                     duplicateSize |-> duplicateSize,
                     complted |-> FALSE]

\* The reporter alone.
PercentNext ==
    \/ RepTick
    \/ RepCheck

PercentSpec == PercentInit /\ [][PercentNext]_vars

(* ------------------------- registry measurements ------------------------ *)
\* The aggregator is between two records: it has finished the last one.
AggIdle == aggPc \in {"recv", "exit"}

Max(a, b) == IF a >= b THEN a ELSE b

RECURSIVE SeqSizeSum(_)
SeqSizeSum(list) ==
    IF list = << >> THEN 0 ELSE Head(list).size + SeqSizeSum(Tail(list))

RECURSIVE GroupDupCount(_, _)
\* Sum over the groups with key in K of max(0, memberCount - 1).
GroupDupCount(m, K) ==
    IF K = {} THEN 0
    ELSE LET k == CHOOSE x \in K : TRUE
         IN  Max(0, Len(m[k]) - 1) + GroupDupCount(m, K \ {k})

RECURSIVE NonCanonicalBytes(_, _)
\* Sum of the sizes of the members at index >= 1 of the groups with key in K.
NonCanonicalBytes(m, K) ==
    IF K = {} THEN 0
    ELSE LET k == CHOOSE x \in K : TRUE
         IN  SeqSizeSum(Tail(m[k])) + NonCanonicalBytes(m, K \ {k})

\* The paths of the members of one group, and of the whole registry.
GroupPaths(list) == { list[i].path : i \in 1..Len(list) }
RegistryPaths == UNION { GroupPaths(duplicates[k]) : k \in DOMAIN duplicates }

\* A group is ordered non-decreasing by modified; its head is then a minimum.
GroupSorted(list) ==
    /\ \A i \in 1..(Len(list) - 1) : list[i].modified <= list[i + 1].modified
    /\ \A i \in 1..Len(list) : list[1].modified <= list[i].modified

(* -------------------------------- claims -------------------------------- *)
\* C1: whenever the aggregator has finished processing a record,
\* stats.duplicates equals the sum over all groups of the registry of
\* max(0, memberCount - 1).
C1_DuplicateCount ==
    AggIdle => stats.duplicates = GroupDupCount(duplicates, DOMAIN duplicates)

\* C1 witness: a group of three members and a singleton group have been
\* aggregated, so two duplicates were counted one after the other.
C1_Witness ==
    /\ AggIdle
    /\ stats.duplicates = 2
    /\ \E k \in DOMAIN duplicates : Len(duplicates[k]) = 3

\* C2 as claimed: whenever the aggregator has finished processing a record,
\* stats.duplicateSize equals the sum of the sizes of the members at index
\* >= 1 of all groups, also when records of one group differ in size and a
\* later record is older than the canonical member.
C2_DuplicateBytes ==
    AggIdle => stats.duplicateSize = NonCanonicalBytes(duplicates, DOMAIN duplicates)

\* C3: whenever the aggregator has finished processing a record, every group
\* of the registry is ordered non-decreasing by modified and its member 0
\* has the least modified of the group.
C3_GroupsSorted ==
    AggIdle => \A k \in DOMAIN duplicates : GroupSorted(duplicates[k])

\* C3 witness: a group of three whose member 1 is the path of an item of the
\* list view, so it was the canonical member until a later record that is
\* strictly older took its place.
C3_Witness ==
    /\ AggIdle
    /\ \E k \in DOMAIN duplicates :
         /\ Len(duplicates[k]) = 3
         /\ duplicates[k][1].modified < duplicates[k][2].modified
         /\ \E i \in 1..Len(right) : right[i].main = duplicates[k][2].path

\* C4: in every state each path occurs at most once in the registry (in at
\* most one group, at most once in it), and every path of the registry was
\* first sent by the walker and then checksummed by a worker.
C4_ExactlyOnce ==
    /\ \A k \in DOMAIN duplicates :
         \A i, j \in 1..Len(duplicates[k]) :
           i # j => duplicates[k][i].path # duplicates[k][j].path
    /\ \A k1, k2 \in DOMAIN duplicates :
         k1 # k2 => GroupPaths(duplicates[k1]) \cap GroupPaths(duplicates[k2]) = {}
    /\ RegistryPaths \subseteq summed
    /\ summed \subseteq emitted

\* C4 witness: three files went through both workers' channels and sit in
\* two different groups.
C4_Witness ==
    /\ Cardinality(RegistryPaths) = 3
    /\ Cardinality(DOMAIN duplicates) = 2
    /\ AggIdle

\* C5 as claimed: whenever stats.complted is true the walker has finished,
\* fileChannel is empty, no worker holds a record, checksumChannel is empty
\* and the aggregator has finished the last record.
C5_CompleteMeansDrained ==
    stats.complted =>
        /\ scanPc = "done"
        /\ fileChannel = << >>
        /\ \A w \in Workers : wPc[w] # "send"
        /\ checksumChannel = << >>
        /\ AggIdle

\* C6: while the application keeps running (no read error or other panic,
\* no stop), the walk eventually ends and every path the walker has sent is
\* eventually a member of a group: the paths of the registry then are
\* exactly the paths sent.
C6_EventuallyAggregated ==
    <>(mainPc # "running" \/ (scanPc = "done" /\ RegistryPaths = emitted))

\* C6 witness: the walk is over, three files were sent and all three are in
\* the registry of the running application.
C6_Witness ==
    /\ scanPc = "done"
    /\ mainPc = "running"
    /\ Cardinality(emitted) = 3
    /\ RegistryPaths = emitted

\* C7 as claimed: in every state in which a reader can run (the application
\* is running, so a hotkey can call listDuplicates and updateStats can
\* tick), the duplicate counter agrees with the stored groups and every
\* stored group is ordered.
C7_ReadersSeeConsistentState ==
    (mainPc = "running") =>
        /\ stats.duplicates = GroupDupCount(duplicates, DOMAIN duplicates)
        /\ \A k \in DOMAIN duplicates : GroupSorted(duplicates[k])

\* C8 as claimed: stopping the application never makes the walker or a
\* worker send on a closed channel.
C8_NoSendOnClosedChannel ==
    panicCause # "send on closed channel"

\* C9 as claimed: when the open or the read of a file fails in a worker, the
\* run is not aborted: the process keeps running.
C9_ReadErrorNotFatal ==
    (readFailed # {}) => mainPc # "crashed"

\* C10 as claimed: a traversal error that leaves walk() without a FileInfo
\* does not stop the walk: the process keeps running.
C10_TraversalErrorNotFatal ==
    panicCause # "nil FileInfo"

\* The paths of the records buffered in a channel.
ChanPaths(ch) == { ch[i].path : i \in 1..Len(ch) }

RECURSIVE RegistryBytes(_, _)
\* Sum of the sizes of all members of the groups with key in K.
RegistryBytes(m, K) ==
    IF K = {} THEN 0
    ELSE LET k == CHOOSE x \in K : TRUE
         IN  SeqSizeSum(m[k]) + RegistryBytes(m, K \ {k})

\* C11: a visited entry that is not a regular file of size > 0 (directory,
\* symlink, special file, zero-byte file) is never sent on fileChannel, never
\* checksummed, never buffered in a channel and never in the registry, and
\* whenever the aggregator has finished a record stats.count and stats.size
\* are the number and the total size of the registry members only.
C11_OnlyRegularNonEmpty ==
    /\ notFile \cap (emitted \cup summed \cup ChanPaths(fileChannel)
                     \cup ChanPaths(checksumChannel) \cup RegistryPaths) = {}
    /\ AggIdle => /\ stats.count = Cardinality(RegistryPaths)
                  /\ stats.size = RegistryBytes(duplicates, DOMAIN duplicates)

\* C11 witness: two entries were skipped and the third one, a regular
\* non-empty file, is the only record counted.
C11_Witness ==
    /\ Cardinality(notFile) = 2
    /\ AggIdle
    /\ stats.count = 1
    /\ Cardinality(RegistryPaths) = 1

(* -------------------------- handler measurements ------------------------ *)
SeqSet(seq) == { seq[i] : i \in 1..Len(seq) }

\* The paths of the members at index >= 1 of all groups of a registry.
NonCanonical(m) == UNION { { m[k][i].path : i \in 2..Len(m[k]) } : k \in DOMAIN m }

\* The files a disk holds.
Files(disk) == { disk[p] : p \in DiskPaths } \ {0}

\* The checksum under which a registry lists a file, << >> when it does not.
Content(m, file) ==
    IF \E k \in DOMAIN m : file \in GroupPaths(m[k])
    THEN CHOOSE k \in DOMAIN m : file \in GroupPaths(m[k])
    ELSE << >>

RECURSIVE LinesOf(_, _)
\* The lines of a manifest, cur being the line read so far.
LinesOf(text, cur) ==
    IF text = << >> THEN (IF cur = << >> THEN {} ELSE {cur})
    ELSE IF Head(text) = NewLine THEN {cur} \cup LinesOf(Tail(text), << >>)
    ELSE LinesOf(Tail(text), Append(cur, Head(text)))

\* C12 as claimed: when the removal of one duplicate of the snapshot fails,
\* every other duplicate of the snapshot is still removed.
C12_DeleteBestEffort ==
    (actKey = "delete" /\ actFailed # {}) =>
        \A path \in NonCanonical(snapReg) \ actFailed : fs[path] = 0

\* C13 as claimed: after Move the destination holds one file per duplicate
\* moved, each its own, and no file that was on the disk has been replaced.
C13_MoveNeverOverwrites ==
    (actKey = "move" /\ actPc = "done") =>
        /\ \A path \in NonCanonical(snapReg) :
             \E to \in DiskPaths : Dir(to) = targetDir /\ fs[to] = path
        /\ Files(DiskAtStart) \subseteq Files(fs)

\* C14 as claimed: while and after Delete or Move runs, the canonical file
\* (member 0) of every group of the snapshot is at its original path with its
\* original content, also with the default targetDir inside the scanned tree.
C14_CanonicalUntouched ==
    (actKey \in {"delete", "move"}) =>
        \A k \in DOMAIN snapReg :
          LET canonical == snapReg[k][1].path
          IN  /\ fs[canonical] # 0
              /\ Content(snapReg, fs[canonical]) = k

C16_LastSnapshotShowsComplete ==
    (repPc = "exit") => shown.done

\* C17 as claimed: whenever the aggregator has finished a record, two
\* members of a group with the same modified time are in the order in which
\* they were aggregated (the path of a file of GroupSpec is its arrival
\* number), so among tied oldest files the first to arrive is canonical.
C17_TiesKeepArrivalOrder ==
    AggIdle =>
        \A k \in DOMAIN duplicates :
          \A i, j \in 1..Len(duplicates[k]) :
            (i < j /\ duplicates[k][i].modified = duplicates[k][j].modified)
                => duplicates[k][i].path < duplicates[k][j].path

\* C18 as claimed: a file of which the worker read a number of bytes other
\* than the size the walker recorded is dropped: its record is never on
\* checksumChannel and never in the registry, and it is not counted.
C18_MismatchedFileDropped ==
    /\ mismatched \cap (ChanPaths(checksumChannel) \cup RegistryPaths) = {}
    /\ AggIdle => stats.count <= Cardinality(summed \ mismatched)

\* The items of the list view that belong to a group: their main text is the
\* path of one of its members.
GroupRows(list) == { i \in 1..Len(right) : right[i].main \in GroupPaths(list) }

\* C19 as claimed: whenever the aggregator has finished a record, the list
\* view holds at most one item per group, and the main text of that item is
\* the path of the current canonical member of the group.
C19_OneRowPerGroup ==
    AggIdle =>
        \A k \in DOMAIN duplicates :
          /\ Cardinality(GroupRows(duplicates[k])) <= 1
          /\ \A i \in GroupRows(duplicates[k]) : right[i].main = duplicates[k][1].path

\* C20 as claimed: for counters with size > 0 the colour shown is green
\* (low) when 100 * duplicateSize < 5 * size, yellow (medium) from 5 to 15
\* percent inclusive, red (high) above 15 percent; exactly 5 percent is
\* yellow.
C20_BandsAsClaimed ==
    (shown.set /\ shown.size > 0) =>
        shown.percent =
            IF 100 * shown.duplicateSize < 5 * shown.size THEN "green"
            ELSE IF 100 * shown.duplicateSize <= 15 * shown.size THEN "yellow"
            ELSE "red"

\* C20 amended: for counters with size > 0 the colour shown is green (low)
\* when the percent is at most 5, yellow (medium) when it is above 5 and at
\* most 15, red (high) when it is above 15; exactly 5 percent is green and
\* exactly 15 percent is yellow.
C20_Bands ==
    (shown.set /\ shown.size > 0) =>
        /\ (shown.percent = "green") <=> (100 * shown.duplicateSize <= 5 * shown.size)
        /\ (shown.percent = "yellow") <=> /\ 100 * shown.duplicateSize > 5 * shown.size
                                          /\ 100 * shown.duplicateSize <= 15 * shown.size
        /\ (shown.percent = "red") <=> (100 * shown.duplicateSize > 15 * shown.size)

\* C20 witness: the text was set for counters at exactly 5 percent (1 of 20
\* bytes) and it is green.
C20_Witness ==
    /\ shown.set
    /\ shown.size > 0
    /\ 100 * shown.duplicateSize = 5 * shown.size
    /\ shown.percent = "green"

====
